---- MODULE Spec2Model ----
(***************************************************************************)
(* Model of parol_runtime's error layer (src/errors.rs): TokenVec,         *)
(* FileSource, the FileSource -> NamedSource conversion, UnexpectedToken   *)
(* and the ParserError diagnostics.                                        *)
(*                                                                         *)
(* Text is a sequence of one-character strings, so that concatenation and  *)
(* joining are computed and not assumed.  File names are sequences of      *)
(* bytes (a Path is not necessarily UTF-8).                                *)
(***************************************************************************)
EXTENDS Integers, Sequences, FiniteSets, TLC

VARIABLES
    expected_tokens,   \* TokenVec.0 : Vec<String>
    pushed,            \* history: the arguments of the push calls, in call order
    rendered,          \* history: <<>> or <<[of, text]>>, the last Display::fmt call
    token_stream,      \* the TokenStream a parse is scanning: [file_name, input, pos]
    snapshot,          \* Option<FileSource>: <<>> or <<[file_name, input]>>
    captured,          \* history: what the live FileSource was built from
    io_result,         \* <<>> or <<[path, read, result]>>: the try_new call, if it was the last step
    span_result,       \* <<>> or the read_span call on the live FileSource, if it was the last step
    named,             \* Option<NamedSource>: <<>> or <<[name, source]>>
    back,              \* <<>> or <<[file_name, input]>> read back from the NamedSource
    unexpected_tokens, \* Vec<UnexpectedToken> collected during prediction
    error,             \* Option<ParserError>
    report             \* <<>> or <<the diagnostic the renderer is given>>

tokenVars == <<expected_tokens, pushed, rendered>>
sourceVars == <<token_stream, snapshot, captured, io_result, span_result>>
namedVars == <<named, back>>
errorVars == <<unexpected_tokens, error, report>>

vars == <<expected_tokens, pushed, rendered, token_stream, snapshot, captured,
          io_result, span_result, named, back, unexpected_tokens, error, report>>

(***************************************************************************)
(* Bounds                                                                  *)
(***************************************************************************)
MaxTokens == 3
MaxTextLen == 2      \* longest source text
MaxNameLen == 2      \* longest file name, in bytes
MaxOffset == 2       \* largest span offset
MaxSpanLen == 2      \* largest span length
MaxUnexpected == 1   \* most UnexpectedToken records attached to one error

(***************************************************************************)
(* TokenVec                                                                *)
(***************************************************************************)
\* The descriptors a caller pushes; the empty string is a String like any other.
Descriptors == { <<>>, <<"A">>, <<"B">>, <<"C">> }

Separator == <<",", " ">>

\* The reference meaning of "joined with ', '": n elements, n-1 separators.
RECURSIVE Join(_)
Join(s) ==
    IF s = <<>> THEN <<>>
    ELSE IF Len(s) = 1 THEN s[1]
    ELSE s[1] \o Separator \o Join(Tail(s))

\* A push that refuses a descriptor already stored.
TokenVec_push_dedup(v, token) ==
    IF \E i \in DOMAIN v : v[i] = token THEN v ELSE Append(v, token)

\* TokenVec::push : self.0.push(token)
TokenVec_push(v, token) == Append(v, token)

\* The closure of the fold in Display::fmt.
FmtStep(acc, e) ==
    (IF acc # <<>> THEN acc \o Separator ELSE acc) \o e

RECURSIVE FmtFold(_, _)
FmtFold(acc, s) ==
    IF s = <<>> THEN acc ELSE FmtFold(FmtStep(acc, s[1]), Tail(s))

\* impl Display for TokenVec : fold from String::new()
TokenVec_fmt(v) == FmtFold(<<>>, v)

\* No TokenStream is being scanned.
NoStream == [file_name |-> <<>>, input |-> <<>>, pos |-> 0]

IdleTokens == expected_tokens = <<>> /\ pushed = <<>> /\ rendered = <<>>
IdleSource ==
    /\ token_stream = NoStream
    /\ snapshot = <<>>
    /\ captured = <<>>
    /\ io_result = <<>>
    /\ span_result = <<>>
IdleNamed == named = <<>> /\ back = <<>>
IdleErrors == unexpected_tokens = <<>> /\ error = <<>> /\ report = <<>>

InitTokens == IdleTokens /\ IdleSource /\ IdleNamed /\ IdleErrors

Push ==
    /\ Len(expected_tokens) < MaxTokens
    /\ \E token \in Descriptors :
         /\ expected_tokens' = TokenVec_push(expected_tokens, token)
         /\ pushed' = Append(pushed, token)
    /\ UNCHANGED <<rendered, sourceVars, namedVars, errorVars>>

Render ==
    /\ rendered' = << [of |-> expected_tokens, text |-> TokenVec_fmt(expected_tokens)] >>
    /\ UNCHANGED <<expected_tokens, pushed, sourceVars, namedVars, errorVars>>

NextTokens == Push \/ Render

SpecTokens == InitTokens /\ [][NextTokens]_vars

(***************************************************************************)
(* C1: for every sequence of pushed descriptors, empty strings included,   *)
(* Display::fmt yields the descriptors joined with ", " in insertion       *)
(* order (n descriptors, n-1 separators).                                  *)
(***************************************************************************)
C1_RenderIsJoin ==
    \A i \in DOMAIN rendered : rendered[i].text = Join(rendered[i].of)

(***************************************************************************)
(* C2: after any sequence of push calls on an initially empty TokenVec the *)
(* stored sequence is the sequence of pushed descriptors in call order:    *)
(* nothing rejected, removed, reordered or deduplicated.                   *)
(***************************************************************************)
C2_StoredIsPushed == expected_tokens = pushed

C2_DuplicateKept ==
    /\ Len(expected_tokens) = MaxTokens
    /\ \E i, j \in DOMAIN expected_tokens : i < j /\ expected_tokens[i] = expected_tokens[j]
    /\ \E i, j \in DOMAIN expected_tokens : expected_tokens[i] # expected_tokens[j]

(***************************************************************************)
(* FileSource                                                              *)
(***************************************************************************)
RECURSIVE SeqsUpTo(_, _)
SeqsUpTo(S, n) ==
    IF n = 0 THEN { <<>> }
    ELSE LET shorter == SeqsUpTo(S, n - 1)
         IN  shorter \cup { Append(q, x) : q \in shorter, x \in S }

TextChars == { "a", "\n" }
Texts == SeqsUpTo(TextChars, MaxTextLen)

\* Bytes of a file name: 'a', the two bytes of U+00E9, and a byte that occurs
\* in no UTF-8 text.
NameBytes == { 97, 195, 169, 255 }
Names == SeqsUpTo(NameBytes, MaxNameLen)

\* The names the streams and files of a parse go by: one readable, one not.
StreamNames == { <<97>>, <<255>> }

\* Path::to_str succeeds exactly on valid UTF-8.
RECURSIVE IsUtf8(_)
IsUtf8(b) ==
    IF b = <<>> THEN TRUE
    ELSE IF b[1] < 128 THEN IsUtf8(Tail(b))
    ELSE IF b[1] \in 194..223
         THEN Len(b) >= 2 /\ b[2] \in 128..191 /\ IsUtf8(Tail(Tail(b)))
    ELSE IF b[1] \in 224..239
         THEN Len(b) >= 3 /\ b[2] \in 128..191 /\ b[3] \in 128..191
              /\ IsUtf8(Tail(Tail(Tail(b))))
    ELSE FALSE

\* What std::fs::read_to_string can answer for a path.
ReadOutcomes ==
    { [ok |-> TRUE, contents |-> t] : t \in Texts }
      \cup { [ok |-> FALSE, contents |-> <<>>] }

Ok(v) == [tag |-> "Ok", value |-> v, err |-> "none"]
Err(e) == [tag |-> "Err", value |-> <<>>, err |-> e]

\* A try_new that swallows the read failure and yields an empty snapshot.
FileSource_try_new_swallow(file_name, read) ==
    Ok([file_name |-> file_name, input |-> IF read.ok THEN read.contents ELSE <<>>])

\* FileSource::try_new : read_to_string(..).into_diagnostic()? ; Ok(Self {..})
FileSource_try_new(file_name, read) ==
    IF read.ok
    THEN Ok([file_name |-> file_name, input |-> read.contents])
    ELSE Err("io")

\* A from_stream that captures only the input the stream has not consumed yet.
FileSource_from_stream_rest(ts) ==
    [file_name |-> ts.file_name,
     input |-> SubSeq(ts.input, ts.pos + 1, Len(ts.input))]

\* FileSource::from_stream : clones the name, copies the text
FileSource_from_stream(ts) ==
    [file_name |-> ts.file_name, input |-> ts.input]

(***************************************************************************)
(* <str as SourceCode>::read_span: the covered text plus the requested     *)
(* context lines, with the line, column and offset where the data starts;  *)
(* OutOfBounds when the span does not lie within the text.                 *)
(***************************************************************************)
Spans == [offset : 0..MaxOffset, length : 0..MaxSpanLen]
\* Context lines asked for on either side: none or one.
Contexts == { 0, 1 }

Max(a, b) == IF a >= b THEN a ELSE b
Min(a, b) == IF a <= b THEN a ELSE b

\* 0-based line of the byte offset off: the newlines before it.
LineOf(text, off) == Cardinality({ i \in 1..off : text[i] = "\n" })

\* Offset of the first byte of the given 0-based line.
LineStart(text, line) ==
    IF line = 0 THEN 0
    ELSE LET ends == { i \in 1..Len(text) : text[i] = "\n" /\ LineOf(text, i) = line }
         IN  IF ends = {} THEN Len(text) ELSE CHOOSE i \in ends : TRUE

\* Offset just past the last byte of the given line, its newline excluded.
LineEnd(text, line) ==
    LET nls == { i \in 1..Len(text) : text[i] = "\n" /\ LineOf(text, i - 1) = line }
    IN  IF nls = {} THEN Len(text) ELSE (CHOOSE i \in nls : TRUE) - 1

SpanWithin(span, text) == span.offset + span.length <= Len(text)

str_read_span(text, span, before, after) ==
    IF ~SpanWithin(span, text) THEN Err("OutOfBounds")
    ELSE LET stop == span.offset + span.length
             first == Max(0, LineOf(text, span.offset) - before)
             last == Min(LineOf(text, Len(text)), LineOf(text, stop) + after)
             from == IF before = 0 THEN span.offset ELSE LineStart(text, first)
             to == IF after = 0 THEN stop ELSE LineEnd(text, last)
         IN  Ok([data |-> SubSeq(text, from + 1, to),
                 offset |-> from,
                 line |-> LineOf(text, from),
                 column |-> from - LineStart(text, LineOf(text, from))])

\* A read_span that cuts the span down to the text instead of failing.
FileSource_read_span_clamped(fs, span, before, after) ==
    LET off == Min(span.offset, Len(fs.input))
    IN  str_read_span(fs.input,
                      [offset |-> off, length |-> Min(span.length, Len(fs.input) - off)],
                      before, after)

\* impl SourceCode for FileSource : delegates to the str implementation on self.input
FileSource_read_span(fs, span, before, after) ==
    str_read_span(fs.input, span, before, after)

(***************************************************************************)
(* One FileSource from construction to drop, next to the TokenStream it    *)
(* may have been captured from.                                            *)
(***************************************************************************)
StreamName == <<97>>
Streams == { [file_name |-> StreamName, input |-> t, pos |-> 0] : t \in Texts }

InitSource ==
    /\ IdleTokens /\ IdleNamed /\ IdleErrors
    /\ token_stream \in Streams
    /\ snapshot = <<>>
    /\ captured = <<>>
    /\ io_result = <<>>
    /\ span_result = <<>>

TryNew ==
    /\ snapshot = <<>>
    /\ \E path \in StreamNames, read \in ReadOutcomes :
         LET r == FileSource_try_new(path, read)
         IN  /\ io_result' = << [path |-> path, read |-> read, result |-> r] >>
             /\ snapshot' = IF r.tag = "Ok" THEN << r.value >> ELSE <<>>
             /\ captured' = IF r.tag = "Ok"
                            THEN << [file_name |-> path, input |-> read.contents,
                                     by |-> "try_new"] >>
                            ELSE <<>>
    /\ span_result' = <<>>
    /\ UNCHANGED <<token_stream, tokenVars, namedVars, errorVars>>

FromStream ==
    /\ snapshot = <<>>
    /\ snapshot' = << FileSource_from_stream(token_stream) >>
    /\ captured' = << [file_name |-> token_stream.file_name, input |-> token_stream.input,
                        by |-> "from_stream"] >>
    /\ io_result' = <<>>
    /\ span_result' = <<>>
    /\ UNCHANGED <<token_stream, tokenVars, namedVars, errorVars>>

\* The stream consumes one more byte of its input.
StreamAdvance ==
    /\ token_stream.pos < Len(token_stream.input)
    /\ token_stream' = [token_stream EXCEPT !.pos = @ + 1]
    /\ io_result' = <<>>
    /\ span_result' = <<>>
    /\ UNCHANGED <<snapshot, captured, tokenVars, namedVars, errorVars>>

\* The stream is dropped and the next parse scans another buffer.
StreamReplace ==
    /\ \E ts \in Streams : ts # token_stream /\ token_stream' = ts
    /\ io_result' = <<>>
    /\ span_result' = <<>>
    /\ UNCHANGED <<snapshot, captured, tokenVars, namedVars, errorVars>>

ReadSpan ==
    /\ snapshot # <<>>
    /\ \E span \in Spans, before \in Contexts, after \in Contexts :
         span_result' = << [source |-> snapshot[1], span |-> span,
                            before |-> before, after |-> after,
                            result |-> FileSource_read_span(snapshot[1], span, before, after)] >>
    /\ io_result' = <<>>
    /\ UNCHANGED <<token_stream, snapshot, captured, tokenVars, namedVars, errorVars>>

DropSource ==
    /\ snapshot # <<>>
    /\ snapshot' = <<>>
    /\ captured' = <<>>
    /\ io_result' = <<>>
    /\ span_result' = <<>>
    /\ UNCHANGED <<token_stream, tokenVars, namedVars, errorVars>>

NextSource ==
    TryNew \/ FromStream \/ StreamAdvance \/ StreamReplace \/ ReadSpan \/ DropSource

SpecSource == InitSource /\ [][NextSource]_vars

(***************************************************************************)
(* C5: read_span with a span outside the captured text returns a           *)
(* resolution error and no contents; with a span inside it returns the     *)
(* contents the str implementation computes from the captured text alone.  *)
(***************************************************************************)
C5_ReadSpanResolvesOnText ==
    \A i \in DOMAIN span_result :
        LET c == span_result[i]
        IN  /\ c.source = snapshot[1]
            /\ c.result = str_read_span(c.source.input, c.span, c.before, c.after)
            /\ ~SpanWithin(c.span, c.source.input) => c.result = Err("OutOfBounds")
            /\ SpanWithin(c.span, c.source.input) =>
                 /\ c.result.tag = "Ok"
                 /\ c.span.offset - c.result.value.offset \in 0..Len(c.source.input)
                 /\ c.result.value.data =
                      SubSeq(c.source.input, c.result.value.offset + 1,
                             c.result.value.offset + Len(c.result.value.data))

C5_OutOfBoundsSeen ==
    /\ span_result # <<>>
    /\ span_result[1].source.input # <<>>
    /\ span_result[1].span.offset < Len(span_result[1].source.input)
    /\ span_result[1].result.tag = "Err"

(***************************************************************************)
(* C8: try_new on a resource that cannot be read returns the I/O failure   *)
(* to the caller and constructs no snapshot and no ParserError; on a       *)
(* readable resource it returns a snapshot with the given name and the     *)
(* full contents read.                                                     *)
(***************************************************************************)
C8_TryNewPropagatesIoFailure ==
    \A i \in DOMAIN io_result :
        LET c == io_result[i]
        IN  /\ ~c.read.ok =>
                 c.result = Err("io") /\ snapshot = <<>> /\ error = <<>>
            /\ c.read.ok =>
                 /\ c.result = Ok([file_name |-> c.path, input |-> c.read.contents])
                 /\ snapshot = << c.result.value >>

C8_UnreadableSeen ==
    io_result # <<>> /\ ~io_result[1].read.ok /\ io_result[1].result.tag = "Err"

(***************************************************************************)
(* C9: a constructed FileSource keeps the name and the text it was         *)
(* captured with, whatever read_span calls are made on it and however the  *)
(* token stream it was captured from moves on or is replaced.              *)
(***************************************************************************)
C9_SnapshotKeepsCapture ==
    snapshot # <<>> =>
        /\ captured # <<>>
        /\ snapshot[1].file_name = captured[1].file_name
        /\ snapshot[1].input = captured[1].input

C9_StreamMovedOn ==
    /\ snapshot # <<>>
    /\ captured[1].by = "from_stream"
    /\ span_result # <<>>
    /\ token_stream.input # snapshot[1].input
    /\ token_stream.pos > 0

(***************************************************************************)
(* FileSource -> NamedSource                                               *)
(***************************************************************************)
\* "<Bad file name>"
BadFileName == << 60, 66, 97, 100, 32, 102, 105, 108, 101, 32, 110, 97, 109, 101, 62 >>

\* Path::to_str : Some(the same bytes) on valid UTF-8, None otherwise
to_str(path) == IF IsUtf8(path) THEN << path >> ELSE <<>>

unwrap_or(opt, default) == IF opt = <<>> THEN default ELSE opt[1]

\* NamedSource::new(name, source)
NamedSource_new(name, source) == [name |-> name, source |-> source]

\* A conversion that names every source with the placeholder.
NamedSource_from_placeholder(file_source) ==
    NamedSource_new(BadFileName, file_source)

\* A conversion that passes the raw bytes of the path on as the name.
NamedSource_from_raw(file_source) ==
    NamedSource_new(file_source.file_name, file_source)

\* impl From<FileSource> for NamedSource
NamedSource_from(file_source) ==
    NamedSource_new(unwrap_or(to_str(file_source.file_name), BadFileName), file_source)

\* Reading the name and the text back out of a NamedSource.
NamedSource_back(ns) == [file_name |-> ns.name, input |-> ns.source.input]

FileSources == [file_name : Names, input : Texts]

InitNamed ==
    /\ IdleTokens /\ IdleErrors
    /\ token_stream = NoStream
    /\ \E fs \in FileSources :
         /\ snapshot = << fs >>
         /\ captured = << [file_name |-> fs.file_name, input |-> fs.input, by |-> "caller"] >>
    /\ io_result = <<>>
    /\ span_result = <<>>
    /\ named = <<>>
    /\ back = <<>>

\* file_source.into() : the FileSource is moved into the NamedSource
Convert ==
    /\ snapshot # <<>>
    /\ named' = << NamedSource_from(snapshot[1]) >>
    /\ snapshot' = <<>>
    /\ UNCHANGED <<token_stream, captured, io_result, span_result, back, tokenVars, errorVars>>

ReadBack ==
    /\ named # <<>>
    /\ back = <<>>
    /\ back' = << NamedSource_back(named[1]) >>
    /\ UNCHANGED <<sourceVars, named, tokenVars, errorVars>>

NextNamed == Convert \/ ReadBack

SpecNamed == InitNamed /\ [][NextNamed]_vars

(***************************************************************************)
(* C6: converting a FileSource to a NamedSource and back preserves the     *)
(* display name and the full text byte for byte, for every snapshot.       *)
(***************************************************************************)
C6_RoundTripPreserves ==
    back # <<>> =>
        /\ back[1].file_name = captured[1].file_name
        /\ back[1].input = captured[1].input

\* C6 as amended: the text is always preserved; the name is preserved when it
\* is valid UTF-8, and is "<Bad file name>" otherwise.
C6_RoundTripPreservesReadableName ==
    back # <<>> =>
        /\ back[1].input = captured[1].input
        /\ IsUtf8(captured[1].file_name) => back[1].file_name = captured[1].file_name
        /\ ~IsUtf8(captured[1].file_name) => back[1].file_name = BadFileName

C6_ReadableRoundTripSeen ==
    /\ back # <<>>
    /\ Len(captured[1].file_name) = MaxNameLen
    /\ IsUtf8(captured[1].file_name)
    /\ \E i \in DOMAIN captured[1].file_name : captured[1].file_name[i] > 127
    /\ captured[1].input # <<>>
    /\ back[1].file_name = captured[1].file_name

(***************************************************************************)
(* C7: the conversion never fails and is a function of the FileSource: a   *)
(* name that is readable text is carried over as it is, any other name     *)
(* becomes "<Bad file name>", and the text is carried over unchanged.      *)
(***************************************************************************)
C7_ConversionNamesOrPlaceholder ==
    named # <<>> =>
        /\ named[1].source.input = captured[1].input
        /\ named[1].source.file_name = captured[1].file_name
        /\ named[1].name =
             (IF IsUtf8(captured[1].file_name) THEN captured[1].file_name ELSE BadFileName)

C7_PlaceholderSeen ==
    /\ named # <<>>
    /\ ~IsUtf8(captured[1].file_name)
    /\ named[1].name = BadFileName
    /\ named[1].source.input # <<>>

(***************************************************************************)
(* UnexpectedToken and ParserError                                         *)
(***************************************************************************)
\* A lexer token: its text, its kind and where it says it is.
Tokens == { [symbol |-> <<"+">>, token_type |-> <<"P">>, location |-> sp] : sp \in Spans }

\* impl From<&Token<'_>> for SourceSpan : the token's own offset and length
TokenToSpan(token) ==
    [offset |-> token.location.offset, length |-> token.location.length]

\* UnexpectedToken::new
UnexpectedToken_new(name, token_type, input, token) ==
    [name |-> name, token_type |-> token_type, input |-> input,
     token |-> TokenToSpan(token)]

\* The texts the failing parses scan: "a", "a\n", "a\na", ...
SampleText(n) == [i \in 1..n |-> IF i % 2 = 1 THEN "a" ELSE "\n"]
ErrorInputs ==
    { NamedSource_from([file_name |-> StreamName, input |-> SampleText(n)]) :
        n \in 0..MaxTextLen }

Causes == { <<>>, <<"x", ":", " ">> }
ExpectedSets ==
    { <<>>,
      TokenVec_push(TokenVec_push(<<>>, <<"A">>), <<"B">>),
      TokenVec_push(TokenVec_push(<<>>, <<>>), <<"A">>) }

\* The variants of ParserError; a field a variant does not have is empty.
PredictionErrorWithExpectations(cause, input, error_location, unexpected, expected) ==
    [variant |-> "PredictionErrorWithExpectations", text |-> cause, input |-> << input >>,
     span |-> << error_location >>, unexpected_tokens |-> unexpected,
     expected_tokens |-> expected]

UnprocessedInput(input, last_token) ==
    [variant |-> "UnprocessedInput", text |-> <<>>, input |-> << input >>,
     span |-> << last_token >>, unexpected_tokens |-> <<>>, expected_tokens |-> <<>>]

PopOnEmptyScannerStateStack(context, input) ==
    [variant |-> "PopOnEmptyScannerStateStack", text |-> context, input |-> << input >>,
     span |-> <<>>, unexpected_tokens |-> <<>>, expected_tokens |-> <<>>]

InternalError(message) ==
    [variant |-> "InternalError", text |-> message, input |-> <<>>,
     span |-> <<>>, unexpected_tokens |-> <<>>, expected_tokens |-> <<>>]

IdTreeError(source) ==
    [variant |-> "IdTreeError", text |-> source, input |-> <<>>,
     span |-> <<>>, unexpected_tokens |-> <<>>, expected_tokens |-> <<>>]

ExpectingOneOf ==
    << "E", "x", "p", "e", "c", "t", "i", "n", "g", " ", "o", "n", "e", " ",
       "o", "f", " " >>

UnprocessedMessage ==
    << "U", "n", "p", "r", "o", "c", "e", "s", "s", "e", "d", " ", "i", "n",
       "p", "u", "t", " ", "i", "s", " ", "l", "e", "f", "t", " ", "a", "f",
       "t", "e", "r", " ", "p", "a", "r", "s", "i", "n", "g", " ", "h", "a",
       "s", " ", "f", "i", "n", "i", "s", "h", "e", "d" >>

PopMessage ==
    << "T", "r", "i", "e", "d", " ", "t", "o", " ", "p", "o", "p", " ", "f",
       "r", "o", "m", " ", "a", "n", " ", "e", "m", "p", "t", "y", " ", "s",
       "c", "a", "n", "n", "e", "r", " ", "s", "t", "a", "c", "k" >>

UnexpectedTokenPrefix ==
    << "U", "n", "e", "x", "p", "e", "c", "t", "e", "d", " ", "t", "o", "k",
       "e", "n", ":", " " >>

\* #[error(..)] : Display of each variant
ParserError_fmt(e) ==
    IF e.variant = "PredictionErrorWithExpectations"
    THEN e.text \o ExpectingOneOf \o TokenVec_fmt(e.expected_tokens)
    ELSE IF e.variant = "UnprocessedInput" THEN UnprocessedMessage
    ELSE IF e.variant = "PopOnEmptyScannerStateStack" THEN e.text \o PopMessage
    ELSE e.text

\* #[diagnostic(code(..))]
ParserError_code(e) ==
    IF e.variant = "IdTreeError" THEN "parol_runtime::parser::id_tree_error"
    ELSE IF e.variant = "PredictionErrorWithExpectations"
         THEN "parol_runtime::parser::syntax_error"
    ELSE IF e.variant = "UnprocessedInput" THEN "parol_runtime::parser::unprocessed_input"
    ELSE IF e.variant = "PopOnEmptyScannerStateStack"
         THEN "parol_runtime::parser::pop_on_empty_scanner_stack"
    ELSE "parol_runtime::parser::internal_error"

\* #[diagnostic(help(..))]
ParserError_help(e) ==
    IF e.variant = "IdTreeError" THEN "Error from id_tree crate"
    ELSE IF e.variant = "PredictionErrorWithExpectations"
         THEN "Syntax error in input prevents prediction of next production"
    ELSE IF e.variant = "UnprocessedInput"
         THEN "Unprocessed input is left after parsing has finished"
    ELSE IF e.variant = "PopOnEmptyScannerStateStack"
         THEN "Tried to pop from an empty scanner stack"
    ELSE "Unexpected internal state"

\* The snippet the renderer resolves for a label, with one line of context.
Snippet(input, span) == FileSource_read_span(input.source, span, 1, 1)

\* A labels() that reports no label for UnprocessedInput.
ParserError_labels_prediction_only(e) ==
    IF e.variant = "PredictionErrorWithExpectations"
    THEN << [label |-> "Error location", span |-> e.span[1],
             snippet |-> Snippet(e.input[1], e.span[1])] >>
    ELSE <<>>

\* #[label(..)] : the labelled spans of each variant
ParserError_labels(e) ==
    IF e.variant = "PredictionErrorWithExpectations"
    THEN << [label |-> "Error location", span |-> e.span[1],
             snippet |-> Snippet(e.input[1], e.span[1])] >>
    ELSE IF e.variant = "UnprocessedInput"
    THEN << [label |-> "Last processed token", span |-> e.span[1],
             snippet |-> Snippet(e.input[1], e.span[1])] >>
    ELSE <<>>

\* #[derive(Diagnostic)] for UnexpectedToken
UnexpectedToken_diagnostic(u) ==
    [message |-> UnexpectedTokenPrefix \o u.name \o <<" ", "(">> \o u.token_type \o <<")">>,
     code |-> "parol_runtime::unexpected_token",
     help |-> "Unexpected token",
     source_code |-> << u.input >>,
     labels |-> << [label |-> "Unexpected token", span |-> u.token,
                    snippet |-> Snippet(u.input, u.token)] >>,
     related |-> <<>>]

\* #[related(..)] : the attached UnexpectedToken records, each a diagnostic
ParserError_related(e) ==
    [i \in DOMAIN e.unexpected_tokens |-> UnexpectedToken_diagnostic(e.unexpected_tokens[i])]

\* #[derive(Error, Diagnostic)] for ParserError : what the renderer is given
ParserError_diagnostic(e) ==
    [message |-> ParserError_fmt(e),
     code |-> ParserError_code(e),
     help |-> ParserError_help(e),
     source_code |-> e.input,
     labels |-> ParserError_labels(e),
     related |-> ParserError_related(e)]

(***************************************************************************)
(* One failing parse: unexpected tokens are collected, one ParserError is  *)
(* raised, and the caller hands it to the renderer.                        *)
(***************************************************************************)
InitErrors ==
    /\ IdleTokens /\ IdleSource
    /\ named \in { << ns >> : ns \in ErrorInputs }
    /\ back = <<>>
    /\ unexpected_tokens = <<>>
    /\ error = <<>>
    /\ report = <<>>

NewUnexpectedToken ==
    /\ error = <<>>
    /\ Len(unexpected_tokens) < MaxUnexpected
    /\ \E token \in Tokens :
         unexpected_tokens' =
             Append(unexpected_tokens,
                    UnexpectedToken_new(token.symbol, token.token_type, named[1], token))
    /\ UNCHANGED <<error, report, tokenVars, sourceVars, namedVars>>

RaisePredictionError ==
    /\ error = <<>>
    /\ \E cause \in Causes, token \in Tokens, expected \in ExpectedSets :
         error' = << PredictionErrorWithExpectations(cause, named[1], TokenToSpan(token),
                                                     unexpected_tokens, expected) >>
    /\ unexpected_tokens' = <<>>
    /\ UNCHANGED <<report, tokenVars, sourceVars, namedVars>>

RaiseUnprocessedInput ==
    /\ error = <<>>
    /\ \E token \in Tokens :
         error' = << UnprocessedInput(named[1], TokenToSpan(token)) >>
    /\ unexpected_tokens' = <<>>
    /\ UNCHANGED <<report, tokenVars, sourceVars, namedVars>>

RaisePopOnEmptyScannerStateStack ==
    /\ error = <<>>
    /\ \E context \in Causes :
         error' = << PopOnEmptyScannerStateStack(context, named[1]) >>
    /\ unexpected_tokens' = <<>>
    /\ UNCHANGED <<report, tokenVars, sourceVars, namedVars>>

RaiseInternalError ==
    /\ error = <<>>
    /\ \E message \in Causes : error' = << InternalError(message) >>
    /\ unexpected_tokens' = <<>>
    /\ UNCHANGED <<report, tokenVars, sourceVars, namedVars>>

RaiseIdTreeError ==
    /\ error = <<>>
    /\ \E source \in Causes : error' = << IdTreeError(source) >>
    /\ unexpected_tokens' = <<>>
    /\ UNCHANGED <<report, tokenVars, sourceVars, namedVars>>

RenderReport ==
    /\ error # <<>>
    /\ report = <<>>
    /\ report' = << ParserError_diagnostic(error[1]) >>
    /\ UNCHANGED <<unexpected_tokens, error, tokenVars, sourceVars, namedVars>>

NextErrors ==
    \/ NewUnexpectedToken
    \/ RaisePredictionError
    \/ RaiseUnprocessedInput
    \/ RaisePopOnEmptyScannerStateStack
    \/ RaiseInternalError
    \/ RaiseIdTreeError
    \/ RenderReport

SpecErrors == InitErrors /\ [][NextErrors]_vars

\* The span lies within the text of the source it is paired with.
SpanValid(span, input) == SpanWithin(span, input.source.input)

(***************************************************************************)
(* C3: the span UnexpectedToken::new stores is never empty and never       *)
(* reaches past the end of the text of the source it is paired with.       *)
(***************************************************************************)
C3_SpanNonEmptyWithinSource ==
    \A i \in DOMAIN unexpected_tokens :
        /\ unexpected_tokens[i].token.length > 0
        /\ SpanValid(unexpected_tokens[i].token, unexpected_tokens[i].input)

====
